---- MODULE Spec2Model ----
(***************************************************************************)
(* pgexec (src/main.go): connect to PostgreSQL, run one statement inside a *)
(* transaction, stringify every returned value and print the table.        *)
(*                                                                         *)
(* Text that the program inspects character by character (the flag values  *)
(* url, host, port, ...) is a sequence of one-character strings; text that *)
(* is only produced (display strings, error values) is a TLA+ string.      *)
(* Calls into pgx, pgxpool, uuid and go-pretty are steps whose Go results  *)
(* (value, error) are chosen by the environment.                           *)
(***************************************************************************)
EXTENDS Integers, Sequences, FiniteSets, TLC

VARIABLES
    args,       \* main's connArgs, filled from the flags (lines 21-28, 31)
    pc,         \* position of the run in main / execCommand
    pool,       \* the *pgxpool.Pool: "none" | "open" | "closed"
    poolReq,    \* what getConnPool asked pgxpool for (lines 86-106)
    tx,         \* the pgx.Tx: "nil" | "open" | "committed" | "rolledback"
    defers,     \* execCommand's stack of deferred calls (lines 113, 116)
    err,        \* the error execCommand returns
    panic,      \* the run-time panic in flight, or Nil
    fields,     \* res.FieldDescriptions()
    scanned,    \* the scans slice of every loop iteration (lines 158-164)
    rowMaps,    \* scanRowsToMaps' rowMaps (line 154)
    rowsErr,    \* res.Err(): the error that closed the cursor, or Nil
    stdout,     \* the tables t.Render() wrote (line 143)
    stderr,     \* what log.Fatal or the Go runtime printed
    exitCode,   \* the process exit status, -1 while running
    calls       \* the library calls made so far, each with its error

vars == <<args, pc, pool, poolReq, tx, defers, err, panic, fields, scanned,
          rowMaps, rowsErr, stdout, stderr, exitCode, calls>>

---------------------------------------------------------------------------
(* Bounds of the model.                                                    *)

MaxCols == 2    \* columns of a result
MaxRows == 2    \* rows the cursor delivers

---------------------------------------------------------------------------
(* Values.                                                                 *)

Nil == "nil"

ErrSyntax  == "strconv.Atoi: invalid syntax"
ErrConnect == "pgxpool: cannot create pool"
ErrBegin   == "pgx: begin failed"
ErrQuery   == "pgx: query failed"
ErrRows    == "pgx: error while reading rows"
ErrScan    == "pgx: scan failed"
ErrCommit  == "pgx: commit failed"
ErrTxClosed == "pgx: tx is closed"

PanicNilTx      == "panic: invalid memory address or nil pointer dereference"
PanicTypeAssert == "panic: interface conversion: interface {} is *interface {}, not [16]uint8"

\* pgtype OIDs the switch of scanRowsToMaps names, and one that it does not.
UUIDOID == 2950
BoolOID == 16
Int4OID == 23

\* pgxpool.Config.MaxConns
MaxConns == 10

\* strings.Trim's cutset " \t\n\r"
Cutset == {" ", "\t", "\n", "\r"}

DigitVal == [c \in {"0", "1", "2", "3", "4", "5", "6", "7", "8", "9"} |->
               CASE c = "0" -> 0 [] c = "1" -> 1 [] c = "2" -> 2 [] c = "3" -> 3
                 [] c = "4" -> 4 [] c = "5" -> 5 [] c = "6" -> 6 [] c = "7" -> 7
                 [] c = "8" -> 8 [] c = "9" -> 9]

---------------------------------------------------------------------------
(* trim, strconv.Atoi, getConnPool.                                        *)

RECURSIVE trimLeft(_)
trimLeft(s) ==
    IF s # <<>> /\ Head(s) \in Cutset THEN trimLeft(Tail(s)) ELSE s

RECURSIVE trimRight(_)
trimRight(s) ==
    IF s # <<>> /\ s[Len(s)] \in Cutset
    THEN trimRight(SubSeq(s, 1, Len(s) - 1))
    ELSE s

trim(str) == trimRight(trimLeft(str))

RECURSIVE digitsValue(_, _)
digitsValue(s, acc) ==
    IF s = <<>> THEN acc
    ELSE digitsValue(Tail(s), acc * 10 + DigitVal[Head(s)])

\* An optional sign, then one or more decimal digits.
unsignedPart(s) ==
    IF s # <<>> /\ Head(s) \in {"-", "+"} THEN Tail(s) ELSE s

AtoiIgnoringSyntax(s) ==
    LET body == unsignedPart(s)
        ds   == SelectSeq(body, LAMBDA c : c \in DOMAIN DigitVal)
        n    == digitsValue(ds, 0)
    IN  [n |-> IF s # <<>> /\ Head(s) = "-" THEN 0 - n ELSE n, err |-> Nil]

Atoi(s) ==
    LET body == unsignedPart(s)
    IN  IF body = <<>> \/ \E i \in 1..Len(body) : body[i] \notin DOMAIN DigitVal
        THEN [n |-> 0, err |-> ErrSyntax]
        ELSE [n |-> IF Head(s) = "-" THEN 0 - digitsValue(body, 0)
                    ELSE digitsValue(body, 0),
              err |-> Nil]

\* Go's conversion uint16(port) of an int.
uint16(n) == n % 65536

ZeroConfig ==
    [MaxConns |-> 0, Host |-> <<>>, Port |-> 0, Database |-> <<>>,
     User |-> <<>>, Password |-> <<>>]

NoRequest ==
    [call |-> "none", connString |-> <<>>, config |-> ZeroConfig, err |-> Nil]

getConnPoolPortFirst(connArgs) ==
    LET p == Atoi(trim(connArgs.port))
    IN  IF p.err # Nil
        THEN [NoRequest EXCEPT !.err = p.err]
        ELSE IF trim(connArgs.url) # <<>>
        THEN [NoRequest EXCEPT !.call = "pgxpool.New",
                               !.connString = connArgs.url]
        ELSE [NoRequest EXCEPT
                !.call = "pgxpool.NewWithConfig",
                !.config = [MaxConns |-> MaxConns,
                            Host     |-> connArgs.host,
                            Port     |-> uint16(p.n),
                            Database |-> connArgs.database,
                            User     |-> connArgs.user,
                            Password |-> connArgs.password]]

\* The pgxpool call getConnPool makes, or the error it returns without one.
getConnPool(connArgs) ==
    IF trim(connArgs.url) # <<>>
    THEN [NoRequest EXCEPT !.call = "pgxpool.New",
                           !.connString = connArgs.url]
    ELSE LET p == Atoi(trim(connArgs.port))
         IN  IF p.err # Nil
             THEN [NoRequest EXCEPT !.err = p.err]
             ELSE [NoRequest EXCEPT
                     !.call = "pgxpool.NewWithConfig",
                     !.config = [MaxConns |-> MaxConns,
                                 Host     |-> connArgs.host,
                                 Port     |-> uint16(p.n),
                                 Database |-> connArgs.database,
                                 User     |-> connArgs.user,
                                 Password |-> connArgs.password]]

---------------------------------------------------------------------------
(* The values rows.Scan leaves in scans[i] (an interface{}), and their     *)
(* conversion to display strings (lines 165-185).                          *)

NilV       == [t |-> "nil", v |-> 0]
BoolV(b)   == [t |-> "bool", v |-> b]
Int32V(n)  == [t |-> "int32", v |-> n]
UUIDV(arr) == [t |-> "[16]uint8", v |-> arr]
\* scans[i] = &scans[i] (line 162), never overwritten by a failed Scan.
SelfPtr    == [t |-> "*interface {}", v |-> 0]

HexDigit == <<"0", "1", "2", "3", "4", "5", "6", "7",
              "8", "9", "a", "b", "c", "d", "e", "f">>

hexByte(b) == HexDigit[(b \div 16) + 1] \o HexDigit[(b % 16) + 1]

RECURSIVE hexBytes(_)
hexBytes(bs) ==
    IF bs = <<>> THEN "" ELSE hexByte(Head(bs)) \o hexBytes(Tail(bs))

RECURSIVE natString(_)
natString(n) ==
    IF n < 10 THEN HexDigit[n + 1]
    ELSE natString(n \div 10) \o HexDigit[(n % 10) + 1]

\* strconv-style decimal text of an integer (fmt's %d / %v of an int32).
Itoa(n) == IF n < 0 THEN "-" \o natString(0 - n) ELSE natString(n)

\* uuid.FromBytes: fails unless the input is exactly 16 bytes long.
FromBytes(input) ==
    IF Len(input) # 16
    THEN [u |-> <<>>, err |-> "uuid: UUID must be exactly 16 bytes long"]
    ELSE [u |-> input, err |-> Nil]

\* uuid.UUID.String(): xxxxxxxx-xxxx-xxxx-xxxx-xxxxxxxxxxxx
uuidString(u) ==
    hexBytes(SubSeq(u, 1, 4)) \o "-" \o hexBytes(SubSeq(u, 5, 6)) \o "-" \o
    hexBytes(SubSeq(u, 7, 8)) \o "-" \o hexBytes(SubSeq(u, 9, 10)) \o "-" \o
    hexBytes(SubSeq(u, 11, 16))

\* fmt's %v of the operand, as it appears inside a bad-verb report.
goValue(v) ==
    CASE v.t = "bool"   -> IF v.v THEN "true" ELSE "false"
      [] v.t = "int32"  -> Itoa(v.v)
      [] v.t = "string" -> v.v
      [] v.t = "[16]uint8" -> "[" \o hexBytes(v.v) \o "]"
      [] OTHER -> "0xc000012345"

\* fmt's report of a verb that does not apply to the operand's type.
badVerb(verb, v) == "%!" \o verb \o "(" \o v.t \o "=" \o goValue(v) \o ")"

\* fmt.Sprintf("%t", v)
sprintf_t(v) ==
    IF v.t = "bool" THEN (IF v.v THEN "true" ELSE "false") ELSE badVerb("t", v)

\* fmt.Sprintf("%s", v)
sprintf_s(v) ==
    IF v.t = "string" THEN v.v ELSE badVerb("s", v)

\* fmt.Sprintf("%x", v)
sprintf_x(v) ==
    IF v.t = "[16]uint8" THEN hexBytes(v.v) ELSE badVerb("x", v)

\* Lines 166-184: the display string of one column value, or the panic of
\* the type assertion v.([16]uint8).
stringify(oid, v) ==
    IF v.t # "nil"
    THEN CASE oid = UUIDOID ->
                IF v.t # "[16]uint8"
                THEN [value |-> "", panic |-> TRUE]
                ELSE LET r == FromBytes(v.v)
                     IN  IF r.err # Nil
                         THEN [value |-> sprintf_x(v), panic |-> FALSE]
                         ELSE [value |-> uuidString(r.u), panic |-> FALSE]
           [] oid = BoolOID -> [value |-> sprintf_t(v), panic |-> FALSE]
           [] OTHER -> [value |-> sprintf_s(v), panic |-> FALSE]
    ELSE [value |-> "null", panic |-> FALSE]

\* row[k] = v on a Go map
mapPut(m, k, v) == [x \in (DOMAIN m) \cup {k} |-> IF x = k THEN v ELSE m[x]]

\* Lines 165-186: the loop over the columns of one row, from column i on.
RECURSIVE fillRow(_, _, _, _)
fillRow(fs, scans, i, row) ==
    IF i > Len(scans) THEN row
    ELSE fillRow(fs, scans, i + 1,
                 mapPut(row, fs[i].Name,
                        stringify(fs[i].DataTypeOID, scans[i]).value))

\* The type assertion of line 170 panics for some column of the row.
rowPanics(fs, scans) ==
    \E i \in 1..Len(scans) : stringify(fs[i].DataTypeOID, scans[i]).panic

\* Lines 131-134: the header row.
headerOf(fs) == [i \in 1..Len(fs) |-> fs[i].Name]

\* Lines 137-140: one table row, looked up by column name.
renderRow(fs, val) == [i \in 1..Len(fs) |-> val[fs[i].Name]]

---------------------------------------------------------------------------
(* Inputs: the flag values, and what the database returns.                 *)

Urls  == {<<>>, <<" ">>, <<" ", "p", "g">>}
Ports == {<<>>, <<"5", "x">>, <<" ", "8", "0", "\n">>,
          <<"6", "5", "5", "3", "6">>, <<"-", "1">>}
Hosts == {<<"h">>}
Users == {<<"u">>}
Passwords == {<<"s">>}
Databases == {<<"d">>}

ConnArgs ==
    [host : Hosts, port : Ports, user : Users, password : Passwords,
     database : Databases, url : Urls]

OIDs  == {UUIDOID, BoolOID, Int4OID}

\* The columns a statement may select: n (int4), b (bool), x (uuid); a
\* statement may select the same column more than once.
FieldDescription ==
    {[Name |-> "n", DataTypeOID |-> Int4OID],
     [Name |-> "b", DataTypeOID |-> BoolOID],
     [Name |-> "x", DataTypeOID |-> UUIDOID]}

\* Result shapes: every sequence of at most MaxCols column descriptors.
Schemas == UNION {[1..n -> FieldDescription] : n \in 0..MaxCols}

UUID1 == <<18, 62, 69, 103, 232, 155, 18, 211, 164, 86, 66, 102, 20, 23, 64, 171>>

\* What a successful Scan into *interface{} yields for a column of a type.
\* x and b are nullable, n is not.
ValuesOf(oid) ==
    CASE oid = UUIDOID -> {NilV, UUIDV(UUID1)}
      [] oid = BoolOID -> {NilV, BoolV(TRUE)}
      [] OTHER         -> {Int32V(1)}

AllValues == UNION {ValuesOf(o) : o \in OIDs}

RowValues(fs) ==
    {r \in [1..Len(fs) -> AllValues] :
        \A i \in 1..Len(fs) : r[i] \in ValuesOf(fs[i].DataTypeOID)}

call(fn, e) == [fn |-> fn, err |-> e]

---------------------------------------------------------------------------
(* The run.                                                                *)

Init ==
    /\ args \in ConnArgs
    /\ pc = "getConnPool"
    /\ pool = "none"
    /\ poolReq = NoRequest
    /\ tx = "nil"
    /\ defers = <<>>
    /\ err = Nil
    /\ panic = Nil
    /\ fields = <<>>
    /\ scanned = <<>>
    /\ rowMaps = <<>>
    /\ rowsErr = Nil
    /\ stdout = <<>>
    /\ stderr = <<>>
    /\ exitCode = -1
    /\ calls = <<>>

\* defer pool.Close() (line 113)
deferPoolClose(d) == Append(d, "pool.Close")

deferRollbackForgotten(d) == d

\* defer tx.Rollback(ctx) (line 116), with tx a transaction
deferRollback(d) == Append(d, "tx.Rollback")

\* The deferred calls d run, last one first, from transaction state t, pool
\* state p and call log c. tx.Rollback ends an open transaction and reports
\* ErrTxClosed (which the defer drops) on one already committed.
RECURSIVE unwind(_, _, _, _)
unwind(d, t, p, c) ==
    IF d = <<>> THEN [tx |-> t, pool |-> p, calls |-> c]
    ELSE LET f    == d[Len(d)]
             rest == SubSeq(d, 1, Len(d) - 1)
         IN  IF f = "tx.Rollback"
             THEN unwind(rest, IF t = "open" THEN "rolledback" ELSE t, p,
                         Append(c, call(f, IF t = "open" THEN Nil
                                           ELSE ErrTxClosed)))
             ELSE unwind(rest, t, "closed", Append(c, call(f, Nil)))

\* execCommand is left, by "return e" (p = Nil) or by the panic p: the
\* deferred calls run, then control is back in the Action of lines 71-74
\* with e or, when panicking, the Go runtime prints the panic and exits
\* with status 2.
Leave(e, p, t, c) ==
    LET u == unwind(defers, t, pool, c)
    IN  /\ err' = e
        /\ panic' = p
        /\ tx' = u.tx
        /\ pool' = u.pool
        /\ calls' = u.calls
        /\ defers' = <<>>
        /\ IF p = Nil
           THEN /\ pc' = "main"
                /\ UNCHANGED <<stderr, exitCode>>
           ELSE /\ pc' = "exit"
                /\ stderr' = Append(stderr, p)
                /\ exitCode' = 2

\* Lines 109-113: pool, err := getConnPool(ctx, connArgs)
ExecGetConnPool ==
    /\ pc = "getConnPool"
    /\ LET r == getConnPool(args)
       IN  IF r.call = "none"
           THEN /\ Leave(r.err, Nil, tx, Append(calls, call("strconv.Atoi", r.err)))
                /\ UNCHANGED poolReq
           ELSE \E e \in {Nil, ErrConnect} :
                /\ poolReq' = r
                /\ IF e # Nil
                   THEN Leave(e, Nil, tx, Append(calls, call(r.call, e)))
                   ELSE /\ pool' = "open"
                        /\ defers' = deferPoolClose(defers)
                        /\ calls' = Append(calls, call(r.call, e))
                        /\ pc' = "Begin"
                        /\ UNCHANGED <<err, panic, tx, stderr, exitCode>>
    /\ UNCHANGED <<args, fields, scanned, rowMaps, rowsErr, stdout>>

\* Lines 115-119: tx, err := pool.Begin(ctx); defer tx.Rollback(ctx).
\* On failure Begin returns a nil pgx.Tx, and evaluating tx.Rollback on a
\* nil interface for the defer statement is a run-time panic: the check of
\* err on line 117 is never reached.
ExecBegin ==
    /\ pc = "Begin"
    /\ \E e \in {Nil, ErrBegin} :
        IF e = Nil
        THEN /\ tx' = "open"
             /\ defers' = deferRollback(defers)
             /\ calls' = Append(calls, call("pool.Begin", e))
             /\ pc' = "Query"
             /\ UNCHANGED <<err, panic, pool, stderr, exitCode>>
        ELSE Leave(err, PanicNilTx, tx, Append(calls, call("pool.Begin", e)))
    /\ UNCHANGED <<args, poolReq, fields, scanned, rowMaps, rowsErr, stdout>>

\* Lines 120-123: res, err := tx.Query(ctx, sql)
ExecQuery ==
    /\ pc = "Query"
    /\ \E e \in {Nil, ErrQuery} :
        IF e # Nil
        THEN /\ Leave(e, Nil, tx, Append(calls, call("tx.Query", e)))
             /\ UNCHANGED fields
        ELSE /\ \E fs \in Schemas : fields' = fs
             /\ calls' = Append(calls, call("tx.Query", e))
             /\ pc' = "scanRowsToMaps"
             /\ UNCHANGED <<err, panic, tx, pool, defers, stderr, exitCode>>
    /\ UNCHANGED <<args, poolReq, scanned, rowMaps, rowsErr, stdout>>

\* Lines 157-188, one iteration: rows.Next() is true, rows.Scan fills scans
\* (or fails at column k, leaving the columns from k on as they were, and
\* closes the cursor with its error, which the code drops), and the columns
\* are converted.
ScanRow ==
    /\ pc = "scanRowsToMaps"
    /\ rowsErr = Nil
    /\ Len(scanned) < MaxRows
    /\ \E vals \in RowValues(fields), k \in 0..Len(fields) :
        LET scans == [i \in 1..Len(fields) |->
                         IF k = 0 \/ i < k THEN vals[i] ELSE SelfPtr]
            e == IF k = 0 THEN Nil ELSE ErrScan
            c == calls \o <<call("rows.Next", Nil), call("rows.Scan", e)>>
        IN  /\ scanned' = Append(scanned, scans)
            /\ rowsErr' = e
            /\ IF rowPanics(fields, scans)
               THEN /\ Leave(err, PanicTypeAssert, tx, c)
                    /\ UNCHANGED rowMaps
               ELSE /\ rowMaps' = Append(rowMaps, fillRow(fields, scans, 1, <<>>))
                    /\ calls' = c
                    /\ UNCHANGED <<pc, err, panic, tx, pool, defers, stderr,
                                   exitCode>>
    /\ UNCHANGED <<args, poolReq, fields, stdout>>

\* Line 157: rows.Next() is false, at the end of the result or because the
\* cursor failed; scanRowsToMaps returns rowMaps without reading rows.Err().
ScanEnd ==
    /\ pc = "scanRowsToMaps"
    /\ \E e \in {Nil, ErrRows} :
        /\ rowsErr' = IF rowsErr # Nil THEN rowsErr ELSE e
        /\ calls' = Append(calls, call("rows.Next", rowsErr'))
    /\ pc' = "Render"
    /\ UNCHANGED <<args, pool, poolReq, tx, defers, err, panic, fields,
                   scanned, rowMaps, stdout, stderr, exitCode>>

\* Lines 126-143: build the table from the field descriptions and rowMaps
\* and write it to standard output.
ExecRender ==
    /\ pc = "Render"
    /\ stdout' = Append(stdout,
                        [header |-> headerOf(fields),
                         rows |-> [r \in 1..Len(rowMaps) |->
                                      renderRow(fields, rowMaps[r])]])
    /\ calls' = Append(calls, call("t.Render", Nil))
    /\ pc' = "Commit"
    /\ UNCHANGED <<args, pool, poolReq, tx, defers, err, panic, fields,
                   scanned, rowMaps, rowsErr, stderr, exitCode>>

\* Lines 145-150: err = tx.Commit(ctx), then return err or nil.
ExecCommit ==
    /\ pc = "Commit"
    /\ \E e \in {Nil, ErrCommit} :
        Leave(e, Nil, IF e = Nil THEN "committed" ELSE tx,
              Append(calls, call("tx.Commit", e)))
    /\ UNCHANGED <<args, poolReq, fields, scanned, rowMaps, rowsErr, stdout>>

\* Lines 72-79: app.Run returns the Action's error; log.Fatal prints it and
\* exits with status 1.
MainExit ==
    /\ pc = "main"
    /\ IF err # Nil
       THEN /\ stderr' = Append(stderr, err)
            /\ exitCode' = 1
       ELSE /\ exitCode' = 0
            /\ UNCHANGED stderr
    /\ pc' = "exit"
    /\ UNCHANGED <<args, pool, poolReq, tx, defers, err, panic, fields,
                   scanned, rowMaps, rowsErr, stdout, calls>>

Next ==
    \/ ExecGetConnPool
    \/ ExecBegin
    \/ ExecQuery
    \/ ScanRow
    \/ ScanEnd
    \/ ExecRender
    \/ ExecCommit
    \/ MainExit

Spec == Init /\ [][Next]_vars

---------------------------------------------------------------------------
(* Properties.                                                             *)

\* execCommand has finished, by returning or by panicking.
Left == pc \in {"main", "exit"}

Called(fn) == \E i \in 1..Len(calls) : calls[i].fn = fn
Succeeded(fn) == \E i \in 1..Len(calls) : calls[i].fn = fn /\ calls[i].err = Nil
Failed(fn) == \E i \in 1..Len(calls) : calls[i].fn = fn /\ calls[i].err # Nil

PoolCreated == Succeeded("pgxpool.New") \/ Succeeded("pgxpool.NewWithConfig")

\* The text is an optional sign followed by one or more decimal digits.
IsDecimalInteger(s) ==
    LET b == IF s # <<>> /\ (Head(s) = "-" \/ Head(s) = "+") THEN Tail(s) ELSE s
    IN  /\ b # <<>>
        /\ \A i \in 1..Len(b) : b[i] \in {"0", "1", "2", "3", "4", "5", "6", "7", "8", "9"}

\* The integer such a text denotes.
IntValue(s) ==
    LET b == IF s # <<>> /\ (Head(s) = "-" \/ Head(s) = "+") THEN Tail(s) ELSE s
        n == digitsValue(b, 0)
    IN  IF Head(s) = "-" THEN 0 - n ELSE n

\* C1: whenever execCommand has finished (returned normally, returned early
\* after a failure, or panicked), no deferred call is pending, a pool that
\* was created is closed, and a transaction that was begun is ended: it is
\* committed if Commit succeeded and rolled back otherwise, never open.
C1_ReleasedOnEveryExit ==
    Left =>
        /\ defers = <<>>
        /\ pool = IF PoolCreated THEN "closed" ELSE "none"
        /\ tx # "open"
        /\ Succeeded("pool.Begin") =>
              tx = IF Succeeded("tx.Commit") THEN "committed" ELSE "rolledback"
        /\ ~Succeeded("pool.Begin") => tx = "nil"

\* C1's case: an early return after the query failed, with the transaction
\* rolled back and the pool closed.
C1_Witness ==
    /\ Left
    /\ err = ErrQuery
    /\ tx = "rolledback"
    /\ pool = "closed"

\* The step of the pipeline that failed first, as a call record.
PipelineSteps ==
    {"strconv.Atoi", "pgxpool.New", "pgxpool.NewWithConfig", "pool.Begin",
     "tx.Query", "tx.Commit"}

StepFailures ==
    {i \in 1..Len(calls) : calls[i].fn \in PipelineSteps /\ calls[i].err # Nil}

\* C2: when a pipeline step (port parsing, pool creation, begin, query,
\* commit) has failed and execCommand has finished, it has returned exactly
\* that step's error without panicking, no step was run again, and once the
\* process has exited it printed that error and the status is non-zero.
C2_StepErrorReturned ==
    (Left /\ StepFailures # {}) =>
        LET i == CHOOSE j \in StepFailures : \A k \in StepFailures : j <= k
        IN  /\ panic = Nil
            /\ err = calls[i].err
            /\ Cardinality({j \in 1..Len(calls) : calls[j].fn = calls[i].fn}) = 1
            /\ pc = "exit" => (exitCode = 1 /\ stderr = <<calls[i].err>>)

\* Other values of the discrete fields, for comparing runs of getConnPool.
AltConnArgs ==
    [host : Hosts \cup {<<"g">>}, port : Ports, user : Users \cup {<<"v">>},
     password : Passwords \cup {<<"t">>}, database : Databases \cup {<<"e">>},
     url : {args.url}]

\* C3: when url is non-empty after trimming, the only request to pgxpool is
\* pgxpool.New with the url exactly as given, no port is parsed, and
\* getConnPool gives the same result for every value of host, port, user,
\* password and database.
C3_UrlPrecedence ==
    (trim(args.url) # <<>> /\ pc # "getConnPool") =>
        /\ poolReq = [NoRequest EXCEPT !.call = "pgxpool.New",
                                       !.connString = args.url]
        /\ calls[1].fn = "pgxpool.New"
        /\ ~Called("strconv.Atoi")
        /\ ~Called("pgxpool.NewWithConfig")
        /\ pc = "Begin" =>
              \A a \in AltConnArgs : getConnPool(a) = getConnPool(args)

\* C3's case: a pool opened from a url although the port is not a number.
C3_Witness ==
    /\ pc = "Begin"
    /\ pool = "open"
    /\ trim(args.url) # <<>>
    /\ args.url # trim(args.url)
    /\ ~IsDecimalInteger(trim(args.port))

\* C4: when url is empty after trimming and the trimmed port is not a
\* decimal integer, the first step ends execCommand: it returns Atoi's
\* error, and no pool was requested or created, no transaction begun, no
\* query run, nothing rendered and nothing committed.
C4_BadPortFailsFirst ==
    (trim(args.url) = <<>> /\ ~IsDecimalInteger(trim(args.port))
       /\ pc # "getConnPool") =>
        /\ Left
        /\ err = ErrSyntax
        /\ panic = Nil
        /\ calls = <<call("strconv.Atoi", ErrSyntax)>>
        /\ poolReq = NoRequest
        /\ pool = "none"
        /\ tx = "nil"
        /\ stdout = <<>>
        /\ pc = "exit" => (exitCode = 1 /\ stderr = <<ErrSyntax>>)

\* C4's case: the run ended on the port "5x" with no url.
C4_Witness ==
    /\ pc = "exit"
    /\ trim(args.url) = <<>>
    /\ args.port = <<"5", "x">>
    /\ err = ErrSyntax

\* C5: with an empty url and a port that is a decimal integer, a value
\* outside 0..65535 makes getConnPool fail without requesting a pool, and a
\* pool is only requested with the very integer the user gave.
C5_PortIsUint16 ==
    (trim(args.url) = <<>> /\ IsDecimalInteger(trim(args.port))
       /\ pc # "getConnPool") =>
        LET n == IntValue(trim(args.port))
        IN  /\ n \notin 0..65535 =>
                 (poolReq.call = "none" /\ pool = "none" /\ err # Nil)
            /\ poolReq.call = "pgxpool.NewWithConfig" =>
                 poolReq.config.Port = n

\* C6: when every row was read without error, every rendered table has the
\* descriptors' names as header and one row per row read, in cursor order;
\* each row has as many cells as there are descriptors, and cell i is the
\* display string of the i-th value scanned for that row.
C6_CellsInDescriptorOrder ==
    rowsErr = Nil =>
    \A t \in 1..Len(stdout) :
        /\ stdout[t].header = headerOf(fields)
        /\ Len(stdout[t].rows) = Len(scanned)
        /\ \A r \in 1..Len(stdout[t].rows) :
              /\ Len(stdout[t].rows[r]) = Len(fields)
              /\ \A i \in 1..Len(fields) :
                    stdout[t].rows[r][i] =
                        stringify(fields[i].DataTypeOID, scanned[r][i]).value

\* The display string the specification gives a value read from the cursor.
naturalString(v) ==
    CASE v.t = "nil"       -> "null"
      [] v.t = "bool"      -> IF v.v THEN "true" ELSE "false"
      [] v.t = "int32"     -> Itoa(v.v)
      [] v.t = "[16]uint8" -> uuidString(v.v)
      [] OTHER             -> ""

UniqueName(i) ==
    \A j \in 1..Len(fields) : fields[j].Name = fields[i].Name => j = i

\* C7: in every rendered row, a column whose name is unique and whose value
\* was read shows "null" for NULL, "true" or "false" for a boolean and the
\* decimal text for an integer (1 as "1").
C7_NaturalStrings ==
    \A t \in 1..Len(stdout) :
        \A r \in 1..Len(stdout[t].rows) :
            \A i \in 1..Len(fields) :
                (UniqueName(i) /\ scanned[r][i] # SelfPtr) =>
                    stdout[t].rows[r][i] = naturalString(scanned[r][i])

\* C8: once rows.Scan has failed (the UUID type assertion aside), nothing
\* is rendered, Commit is not called, and execCommand returns Scan's error.
C8_ScanErrorPropagates ==
    (Failed("rows.Scan") /\ panic # PanicTypeAssert) =>
        /\ ~Called("t.Render")
        /\ ~Called("tx.Commit")
        /\ Left => err = ErrScan

\* C9: once the query has failed, at submission or while its rows are read,
\* nothing is rendered, Commit is not called and execCommand returns the
\* database's error; and Commit is only ever called after Render.
C9_RenderOnlyAfterSuccess ==
    /\ (Failed("tx.Query") \/ rowsErr = ErrRows) =>
          /\ stdout = <<>>
          /\ ~Called("tx.Commit")
          /\ Left => (panic = Nil /\ err = IF Failed("tx.Query") THEN ErrQuery
                                           ELSE ErrRows)
    /\ \A i \in 1..Len(calls) :
          calls[i].fn = "tx.Commit" =>
              \E j \in 1..(i - 1) : calls[j].fn = "t.Render"

\* C10: a non-nil value in a UUID-typed column never aborts the run: the
\* type assertion does not panic, the row is materialized, and a 16-byte
\* value shows as the canonical UUID text or, failing that, as its hex dump.
C10_UUIDNeverAborts ==
    \A r \in 1..Len(scanned) :
        \A i \in 1..Len(fields) :
            (fields[i].DataTypeOID = UUIDOID /\ scanned[r][i].t # "nil") =>
                /\ panic # PanicTypeAssert
                /\ r <= Len(rowMaps)
                /\ (UniqueName(i) /\ scanned[r][i].t = "[16]uint8") =>
                      rowMaps[r][fields[i].Name] =
                          IF FromBytes(scanned[r][i].v).err = Nil
                          THEN uuidString(scanned[r][i].v)
                          ELSE hexBytes(scanned[r][i].v)

====
